---- MODULE Spec2Model ----
(***************************************************************************)
(* Model of app_eth_sign_msg (src/apps/eth/eth_sign_msg.c): the Ethereum   *)
(* personal-message signing pipeline of the BitBox02 firmware.             *)
(*                                                                         *)
(* One behaviour is one invocation of app_eth_sign_msg.  The request is    *)
(* chosen in Init; every stage of the function is one action.  Bytes and   *)
(* chars are integers 0..255, buffers are sequences of them (index 1 is    *)
(* C offset 0).                                                            *)
(***************************************************************************)
EXTENDS Integers, Sequences, FiniteSets, TLC

VARIABLES
    pc,              \* the stage the function is at
    result,          \* the value returned, "none" while running or after Abort
    request,         \* ETHSignMessageRequest: coin, keypath, keypath_count, msg
    response,        \* ETHSignResponse.signature, 65 bytes
    address,         \* char address[APP_ETH_ADDRESS_HEX_LEN]
    msg,             \* char msg[sizeof(msg_header) - 1 + 1024 + 4]
    payload_offset,  \* size_t payload_offset
    all_ascii,       \* bool all_ascii
    body,            \* char body[64 + 3 + 1]
    title,           \* const char* title
    sighash,         \* uint8_t sighash[32], as the digest of the bytes hashed
    recid,           \* int recid: <<>> until the keystore stored it, then <<value>>
    calls,           \* the collaborator calls made so far, in order, with arguments
    writes,          \* every write into msg or body: [buf, off, len]
    reads,           \* every read of request->msg.bytes: [off, len]
    prev             \* the caller's earlier invocation: <<>>, or <<its request and outcome>>

vars == <<pc, result, request, response, address, msg, payload_offset, all_ascii,
          body, title, sighash, recid, calls, writes, reads, prev>>

----------------------------------------------------------------------------
(* Bounds of the model *)

\* request->msg.size values above the limit that are tried: 1025..1024+MaxOversize
MaxOversize == 2
\* payloads of at most this length are enumerated over the whole of ByteAlphabet
MaxExhaustiveLen == 2
\* payloads of at most this length are tried with every content pattern
MaxRichLen == 70

----------------------------------------------------------------------------
(* Program constants *)

MaxMsgSize == 1024
LenPrefixMax == 4
BodyCap == 64 + 3 + 1
SignatureSize == 65
SigCompactLen == 64
RecidMax == 255
PrintableLo == 20
PrintableHi == 127
\* LongAsciiLimit one too small
LongAsciiLimit_OffByOne == 67 - 1
LongAsciiLimit == 67
\* LongHexLimit one too large
LongHexLimit_OffByOne == 33 + 1
LongHexLimit == 33
AsciiHalf == 32
HexHalf == 16
HexHalfOffset == 35
DotsOffset == 32
DotsLen == 3

ETHCoin_ETH == "ETHCoin_ETH"

\* "\x19" "Ethereum Signed Message:\n" as bytes
msg_header ==
    <<25, 69, 116, 104, 101, 114, 101, 117, 109, 32, 83, 105, 103, 110, 101,
      100, 32, 77, 101, 115, 115, 97, 103, 101, 58, 10>>

MsgCap == Len(msg_header) + MaxMsgSize + LenPrefixMax

----------------------------------------------------------------------------
(* C library and helper functions *)

Min(a, b) == IF a < b THEN a ELSE b

Zeros(n) == [i \in 1..n |-> 0]

\* the byte at C offset i of the array m.bytes of a request's msg field, whose
\* first m.size bytes (at most the array's 1024) are the message; the decoder
\* zero-fills the part of the array the message does not use
ByteAt(m, i) == IF i >= 0 /\ i < m.size /\ i < MaxMsgSize THEN m.bytes[i + 1] ELSE 0

\* printf "%d" of a non-negative int: its decimal digits as chars
RECURSIVE Decimal(_)
Decimal(n) == IF n < 10 THEN <<48 + n>> ELSE Decimal(n \div 10) \o <<48 + (n % 10)>>

\* the number of chars printf "%.<prec>s" takes from the array m.bytes at offset off:
\* it stops at the first NUL and never examines more than prec chars
StrNLen(m, off, prec) ==
    CHOOSE k \in 0..prec :
        /\ \A j \in 0..(k - 1) : ByteAt(m, off + j) # 0
        /\ k = prec \/ ByteAt(m, off + k) = 0

\* the chars printf "%.<prec>s" prints
StrN(m, off, prec) == [j \in 1..StrNLen(m, off, prec) |-> ByteAt(m, off + j - 1)]

\* the bytes of m.bytes that printf "%.<prec>s" examines, as a read record
StrNRead(m, off, prec) ==
    [off |-> off,
     len |-> StrNLen(m, off, prec) + (IF StrNLen(m, off, prec) < prec THEN 1 ELSE 0)]

\* buf after storing the bytes data at C offset off (memcpy, memset and the
\* stores of the formatting helpers); a store outside the buffer is recorded in
\* writes and leaves the part inside the buffer written
Poke(buf, off, data) ==
    LET n  == Len(buf)
        lo == IF off < 0 THEN 0 ELSE off
        hi == Min(off + Len(data), n)
    IN  IF hi <= lo THEN buf
        ELSE SubSeq(buf, 1, lo) \o SubSeq(data, lo - off + 1, hi - off) \o SubSeq(buf, hi + 1, n)

\* the n bytes of m.bytes from C offset off on
BytesFrom(m, off, n) ==
    IF off >= 0 /\ off + n <= m.size /\ off + n <= MaxMsgSize
    THEN SubSeq(m.bytes, off + 1, off + n)
    ELSE [i \in 1..n |-> ByteAt(m, off + i - 1)]

\* the chars snprintf(buf, cap, ...) stores for the formatted string s: as many
\* chars of s as fit in cap - 1, then a NUL; nothing when cap = 0
SnprintfStored(cap, s) ==
    IF cap = 0 THEN <<>> ELSE SubSeq(s, 1, Min(Len(s), cap - 1)) \o <<0>>

\* the return value of snprintf: the length of the whole formatted string
SnprintfRet(s) == Len(s)

\* the C string a char buffer holds: the chars before its first NUL
CStr(buf) ==
    LET nul == {i \in 1..Len(buf) : buf[i] = 0}
    IN  IF nul = {} THEN buf
        ELSE SubSeq(buf, 1, (CHOOSE i \in nul : \A j \in nul : i <= j) - 1)

HexDigits == <<48, 49, 50, 51, 52, 53, 54, 55, 56, 57, 97, 98, 99, 100, 101, 102>>

\* util_uint8_to_hex(&m.bytes[off], in_len, out): the chars stored at out, two lowercase
\* hex digits a byte and a terminating NUL
HexStored(m, off, in_len) ==
    [i \in 1..(2 * in_len + 1) |->
        IF i = 2 * in_len + 1 THEN 0
        ELSE IF i % 2 = 1 THEN HexDigits[(ByteAt(m, off + ((i - 1) \div 2)) \div 16) + 1]
        ELSE HexDigits[(ByteAt(m, off + ((i - 1) \div 2)) % 16) + 1]]

\* Uint8 keeping seven bits
Uint8_SevenBits(x) == x % 128

\* (uint8_t)x for an int x
Uint8(x) == x % 256

----------------------------------------------------------------------------
(* Collaborators declared in eth.h, keystore.h and sha3.h *)

\* app_eth_address on success: "0x" and 40 hex digits derived from the keypath
EthAddress(coin, keypath, keypath_count) ==
    <<48, 120>> \o
    [i \in 1..40 |->
        HexDigits[((i * (keypath_count + 1)
                    + (IF keypath_count > 0 THEN keypath[1 + (i % keypath_count)] ELSE 0))
                   % 16) + 1]]

\* rhash_sha3_256_init, rhash_sha3_update over the bytes data, rhash_keccak_final:
\* the Keccak-256 digest, kept as the digest of its preimage
Keccak256(data) == [keccak256 |-> data]

\* the compact 64-byte (r, s) the keystore returns for a keypath and a digest:
\* deterministic in both
KeystoreSig(keypath, keypath_count, digest) ==
    [i \in 1..SigCompactLen |->
        1 + ((i * 7 + keypath_count * 11 + Len(digest.keccak256) * 13
              + (IF Len(digest.keccak256) > 0
                 THEN digest.keccak256[Len(digest.keccak256)] ELSE 0)) % 255)]

\* the values the keystore may store in the int recid on success
RecIds == {-2147483647, -256, -1, 0, 1, 2, 3, 255, 256, 2147483647}

----------------------------------------------------------------------------
(* The requests tried *)

ETHCoins == {ETHCoin_ETH, "ETHCoin_RopstenETH", "ETHCoin_RinkebyETH"}

\* the empty keypath and a five-element one; the function only passes the
\* elements on, so their values are kept small
Keypaths == {<<>>, <<44, 60, 0, 0, 0>>}

ByteAlphabet == {0, PrintableLo - 1, PrintableLo, 97, PrintableHi, PrintableHi + 1}

Kinds == {"text", "edge", "bin_first", "bin_last", "nul_mid"}

\* n bytes of lowercase text
Text(n) == [i \in 1..n |-> 97 + ((i - 1) % 26)]

\* a payload of n bytes: lowercase text, text of the two extreme accepted byte
\* values, or text with one byte outside the accepted range
Content(n, kind) ==
    IF n = 0 \/ kind = "text" THEN Text(n)
    ELSE IF kind = "edge" THEN [i \in 1..n |-> IF i % 2 = 1 THEN PrintableLo ELSE PrintableHi]
    ELSE IF kind = "bin_first" THEN [Text(n) EXCEPT ![1] = PrintableLo - 1]
    ELSE IF kind = "bin_last" THEN [Text(n) EXCEPT ![n] = PrintableHi + 1]
    ELSE [Text(n) EXCEPT ![(n + 1) \div 2] = 0]

\* the short payloads: every content over ByteAlphabet up to MaxExhaustiveLen,
\* every pattern up to MaxRichLen
ShortPayloads ==
    UNION {[1..n -> ByteAlphabet] : n \in 0..MaxExhaustiveLen}
    \cup {Content(n, k) : n \in 0..MaxRichLen, k \in Kinds}

\* the long sizes the whole pipeline is run on: where the decimal length gains
\* a digit, and the largest sizes accepted
LongSizes == {99, 100, 999, 1000, MaxMsgSize - 1, MaxMsgSize}

Payloads ==
    ShortPayloads \cup {Content(n, k) : n \in LongSizes, k \in {"text", "bin_last"}}

\* every size up to the limit, for the stages that build the buffers
AllSizePayloads ==
    ShortPayloads
    \cup {Content(n, k) : n \in (MaxRichLen + 1)..MaxMsgSize, k \in {"text", "bin_last"}}

\* request->msg: the size field and the bytes array (its used part)
MsgOf(b) == [size |-> Len(b), bytes |-> <<>> \o b]

Msgs ==
    {MsgOf(b) : b \in Payloads}
    \cup {[size |-> n, bytes |-> <<>> \o Content(MaxMsgSize, "text")] :
            n \in (MaxMsgSize + 1)..(MaxMsgSize + MaxOversize)}

RequestOf(c, k, m) == [coin |-> c, keypath |-> k, keypath_count |-> Len(k), msg |-> m]

Requests == {RequestOf(c, k, m) : c \in ETHCoins, k \in Keypaths, m \in Msgs}

\* the requests the buffer-building stages are run on, over every size
BuildRequests ==
    {RequestOf(ETHCoin_ETH, <<44, 60, 0, 0, 0>>, MsgOf(b)) : b \in AllSizePayloads}

----------------------------------------------------------------------------
(* The code of app_eth_sign_msg, stage by stage *)

\* ValidRequest without the size check
ValidRequest_SizeUnchecked(req) == ~(req.coin # ETHCoin_ETH)

\* lines 31-38: neither early return of the validation is taken
ValidRequest(req) == ~(req.msg.size > MaxMsgSize) /\ ~(req.coin # ETHCoin_ETH)

\* line 71: the string snprintf formats, "%s%d" of msg_header and msg.size
PreimagePrefix(size) == msg_header \o Decimal(size)

\* PreimageStores with the payload copied one byte further on, after the NUL
\* that snprintf stored
PreimageStores_AfterNul(m) ==
    <<[off |-> 0, data |-> SnprintfStored(MsgCap, PreimagePrefix(m.size))],
      [off |-> SnprintfRet(PreimagePrefix(m.size)) + 1,
       data |-> BytesFrom(m, 0, m.size)]>>

\* lines 68-72: the stores into msg, in order: snprintf, then memcpy at the
\* offset snprintf returned
PreimageStores(m) ==
    <<[off |-> 0, data |-> SnprintfStored(MsgCap, PreimagePrefix(m.size))],
      [off |-> SnprintfRet(PreimagePrefix(m.size)),
       data |-> BytesFrom(m, 0, m.size)]>>

\* AllAscii when the largest accepted byte value is taken as outside the range
AllAscii_UpperExcluded(m) ==
    \A i \in 0..(m.size - 1) : ~(ByteAt(m, i) < PrintableLo \/ ByteAt(m, i) >= PrintableHi)

\* lines 74-79: every byte of the payload is in the accepted range
AllAscii(m) ==
    \A i \in 0..(m.size - 1) : ~(ByteAt(m, i) < PrintableLo \/ ByteAt(m, i) > PrintableHi)

Dots == [i \in 1..DotsLen |-> 46]

\* lines 85-102: the stores into body, in order, of the branch taken
BodyStores(m, ascii) ==
    IF ascii /\ m.size > LongAsciiLimit THEN
        <<[off |-> 0,
           data |-> SnprintfStored(BodyCap,
                        StrN(m, 0, AsciiHalf) \o Dots \o StrN(m, m.size - AsciiHalf, AsciiHalf))]>>
    ELSE IF ~ascii /\ m.size > LongHexLimit THEN
        <<[off |-> 0, data |-> HexStored(m, 0, HexHalf)],
          [off |-> DotsOffset, data |-> Dots],
          [off |-> HexHalfOffset, data |-> HexStored(m, m.size - HexHalf, HexHalf)]>>
    ELSE IF ascii THEN
        <<[off |-> 0, data |-> SnprintfStored(BodyCap, StrN(m, 0, m.size))]>>
    ELSE
        <<[off |-> 0, data |-> HexStored(m, 0, m.size)]>>

\* lines 85-102: the reads of request->msg.bytes of the branch taken
BodyReads(m, ascii) ==
    IF ascii /\ m.size > LongAsciiLimit THEN
        {StrNRead(m, 0, AsciiHalf), StrNRead(m, m.size - AsciiHalf, AsciiHalf)}
    ELSE IF ~ascii /\ m.size > LongHexLimit THEN
        {[off |-> 0, len |-> HexHalf], [off |-> m.size - HexHalf, len |-> HexHalf]}
    ELSE IF ascii THEN
        {StrNRead(m, 0, m.size)}
    ELSE
        {[off |-> 0, len |-> m.size]}

\* lines 104-109
Title(ascii) == IF ascii THEN "Sign\nETH Message" ELSE "Sign\nETH Message (hex)"

\* HashLen one byte short
HashLen_OneShort(offset, size) == offset + size - 1

\* HashLen when the whole buffer is hashed
HashLen_WholeBuffer(offset, size) == MsgCap

\* line 126: the number of bytes of msg given to rhash_sha3_update
HashLen(offset, size) == offset + size

\* DerivationFailed when the result of app_eth_address is ignored
DerivationFailed_Never(ok) == FALSE

\* lines 42-48: the condition of the early return after app_eth_address
DerivationFailed(ok) == ~ok

\* IdentityRejected when the result of workflow_confirm is ignored
IdentityRejected_Never(ok) == FALSE

\* IdentityRejected with the negation dropped
IdentityRejected_Inverted(ok) == ok

\* line 57: the condition of the early return after the first workflow_confirm
IdentityRejected(ok) == ~ok

\* ContentRejected when the result of workflow_confirm is ignored
ContentRejected_Never(ok) == FALSE

\* line 117: the condition of the early return after the second workflow_confirm
ContentRejected(ok) == ~ok

\* lines 135-136: the condition of the early return after keystore_secp256k1_sign
SignFailed(ok) == ~ok

\* SignErrorCode with the error of the confirmations
SignErrorCode_UserAbort == "UserAbort"

\* line 137: the error returned when the keystore could not sign
SignErrorCode == "Unknown"

\* line 139: the recid the keystore returned is taken for a broken contract
\* RecidAborts when the recovery id is not checked
RecidAborts_Never(r) == FALSE

RecidAborts(r) == r > RecidMax

\* lines 42-48: the arguments of app_eth_address taken from the request
AddressArgs(req) == <<req.coin, req.keypath, req.keypath_count>>

\* SignArgs with a keypath count one too small
SignArgs_CountOff(req, digest) == <<req.keypath, req.keypath_count - 1, digest>>

\* lines 135-136: the arguments of keystore_secp256k1_sign taken from the
\* request, and the digest
SignArgs(req, digest) == <<req.keypath, req.keypath_count, digest>>

\* a buffer after a sequence of stores
RECURSIVE ApplyStores(_, _)
ApplyStores(buf, stores) ==
    IF stores = <<>> THEN buf
    ELSE ApplyStores(Poke(buf, Head(stores).off, Head(stores).data), Tail(stores))

\* the write records of a sequence of stores into the buffer named name
WriteRecords(name, stores) ==
    {[buf |-> name, off |-> stores[i].off, len |-> Len(stores[i].data)] :
        i \in 1..Len(stores)}

Call(fn, args, ret) == [fn |-> fn, args |-> args, ret |-> ret]

\* Return when the function is entered again instead of left
Return_Reenter(r) == pc' = "Validating" /\ result' = r

Return(r) == pc' = "Done" /\ result' = r

----------------------------------------------------------------------------
(* State machine *)

\* the state at the entry of the function, for a request of the set reqs
InitWith(reqs) ==
    /\ pc = "Validating"
    /\ result = "none"
    /\ request \in reqs
    /\ response = Zeros(SignatureSize)
    /\ address = <<>>
    /\ msg = <<>>
    /\ payload_offset = 0
    /\ all_ascii = TRUE
    /\ body = <<>>
    /\ title = ""
    /\ sighash = [keccak256 |-> <<>>]
    /\ recid = <<>>
    /\ calls = <<>>
    /\ writes = {}
    /\ reads = {}
    /\ prev = <<>>

Init == InitWith(Requests)

\* lines 31-38
Validate ==
    /\ pc = "Validating"
    /\ IF ValidRequest(request)
       THEN pc' = "DerivingAddress" /\ result' = result
       ELSE Return("InvalidInput")
    /\ UNCHANGED <<request, response, address, msg, payload_offset, all_ascii, body,
                   title, sighash, recid, calls, writes, reads, prev>>

\* lines 40-50
DeriveAddress ==
    /\ pc = "DerivingAddress"
    /\ \E ok \in BOOLEAN :
        /\ calls' = Append(calls,
              Call("app_eth_address", AddressArgs(request), ok))
        /\ IF DerivationFailed(ok)
           THEN /\ address' = address
                /\ Return("InvalidInput")
           ELSE /\ address' = EthAddress(request.coin, request.keypath,
                                         request.keypath_count)
                /\ pc' = "ConfirmingIdentity"
                /\ result' = result
    /\ UNCHANGED <<request, response, msg, payload_offset, all_ascii, body, title,
                   sighash, recid, writes, reads, prev>>

\* lines 51-60
ConfirmIdentity ==
    /\ pc = "ConfirmingIdentity"
    /\ \E ok \in BOOLEAN :
        /\ calls' = Append(calls,
              Call("workflow_confirm", <<"Your\naddress", address, TRUE>>, ok))
        /\ IF IdentityRejected(ok)
           THEN Return("UserAbort")
           ELSE pc' = "BuildingPreimage" /\ result' = result
    /\ UNCHANGED <<request, response, address, msg, payload_offset, all_ascii, body,
                   title, sighash, recid, writes, reads, prev>>

\* lines 62-72
BuildPreimage ==
    /\ pc = "BuildingPreimage"
    /\ LET stores == PreimageStores(request.msg)
       IN  /\ payload_offset' = stores[2].off
           /\ msg' = ApplyStores(Zeros(MsgCap), stores)
           /\ writes' = writes \cup WriteRecords("msg", stores)
           /\ reads' = reads \cup {[off |-> 0, len |-> request.msg.size]}
    /\ pc' = "BuildingSummary"
    /\ UNCHANGED <<result, request, response, address, all_ascii, body, title,
                   sighash, recid, calls, prev>>

\* lines 74-109
BuildSummary ==
    /\ pc = "BuildingSummary"
    /\ LET ascii  == AllAscii(request.msg)
           stores == BodyStores(request.msg, ascii)
       IN  /\ all_ascii' = ascii
           /\ body' = ApplyStores(Zeros(BodyCap), stores)
           /\ title' = Title(ascii)
           /\ writes' = writes \cup WriteRecords("body", stores)
           /\ reads' = reads \cup {[off |-> 0, len |-> request.msg.size]}
                             \cup BodyReads(request.msg, ascii)
    /\ pc' = "ConfirmingContent"
    /\ UNCHANGED <<result, request, response, address, msg, payload_offset, sighash,
                   recid, calls, prev>>

\* lines 111-120
ConfirmContent ==
    /\ pc = "ConfirmingContent"
    /\ \E ok \in BOOLEAN :
        /\ calls' = Append(calls, Call("workflow_confirm", <<title, CStr(body), TRUE>>, ok))
        /\ IF ContentRejected(ok)
           THEN Return("UserAbort")
           ELSE pc' = "Hashing" /\ result' = result
    /\ UNCHANGED <<request, response, address, msg, payload_offset, all_ascii, body,
                   title, sighash, recid, writes, reads, prev>>

\* lines 122-127
Hash ==
    /\ pc = "Hashing"
    /\ LET n == HashLen(payload_offset, request.msg.size)
       IN  /\ sighash' = Keccak256(SubSeq(msg, 1, n))
           /\ calls' = Append(calls, Call("rhash_sha3_update", <<n>>, TRUE))
    /\ pc' = "Signing"
    /\ UNCHANGED <<result, request, response, address, msg, payload_offset, all_ascii,
                   body, title, recid, writes, reads, prev>>

\* lines 129-144, for a keystore whose sign returns a value of oks and, on
\* success, stores a recovery id of recids
SignStep(oks, recids) ==
    /\ pc = "Signing"
    /\ IF Len(response) # SignatureSize
       THEN /\ pc' = "Aborted"
            /\ UNCHANGED <<result, response, recid, calls>>
       ELSE \E ok \in oks, stored \in BOOLEAN, r \in recids :
            LET args == SignArgs(request, sighash)
                sig  == KeystoreSig(args[1], args[2], args[3])
            IN  /\ calls' = Append(calls, Call("keystore_secp256k1_sign", args, ok))
                \* a keystore that fails may have stored a signature or not, and
                \* leaves recid as it was; one that succeeds stored both
                /\ ok => stored
                /\ ~ok => r = CHOOSE x \in recids : TRUE
                /\ IF SignFailed(ok)
                   THEN /\ response' = IF stored THEN Poke(response, 0, sig) ELSE response
                        /\ recid' = recid
                        /\ Return(SignErrorCode)
                   ELSE /\ recid' = <<r>>
                        /\ IF RecidAborts(r)
                           THEN /\ response' = Poke(response, 0, sig)
                                /\ pc' = "Aborted"
                                /\ result' = result
                           ELSE /\ response' =
                                     Poke(Poke(response, 0, sig), SigCompactLen, <<Uint8(r)>>)
                                /\ Return("Ok")
    /\ UNCHANGED <<request, address, msg, payload_offset, all_ascii, body, title,
                   sighash, writes, reads, prev>>

\* the sign calls of the caller's earlier invocation that had the arguments
\* this one has
EarlierSigns ==
    IF prev = <<>> THEN {}
    ELSE {c \in {prev[1].calls[i] : i \in 1..Len(prev[1].calls)} :
             c.fn = "keystore_secp256k1_sign" /\ c.args = SignArgs(request, sighash)}

\* what the keystore may return and store: anything for arguments it has not
\* seen, and what it returned and stored before for arguments it has seen, as
\* it is deterministic
KeystoreOks == IF EarlierSigns = {} THEN BOOLEAN ELSE {c.ret : c \in EarlierSigns}

KeystoreRecids ==
    IF EarlierSigns = {} \/ prev[1].recid = <<>> THEN RecIds ELSE {prev[1].recid[1]}

\* lines 129-144
Sign == SignStep(KeystoreOks, KeystoreRecids)

Next ==
    \/ Validate
    \/ DeriveAddress
    \/ ConfirmIdentity
    \/ BuildPreimage
    \/ BuildSummary
    \/ ConfirmContent
    \/ Hash
    \/ Sign

Spec == Init /\ [][Next]_vars

\* the requests of the runs followed to their end: payloads of the sizes around
\* which the summary changes its form, and the oversized ones
FairRequests ==
    {req \in Requests :
        \/ req.msg.size > MaxMsgSize
        \/ /\ req.msg.size \in {0, 1, LongHexLimit, LongHexLimit + 1,
                                 LongAsciiLimit, LongAsciiLimit + 1}
           /\ \E k \in Kinds : req.msg.bytes = Content(req.msg.size, k)}

InitFair == InitWith(FairRequests)

\* the function runs on and every collaborator it calls returns: a step that
\* can be taken is taken
FairSpec == InitFair /\ [][Next]_vars /\ WF_vars(Next)

----------------------------------------------------------------------------
(* Two invocations in a row: once app_eth_sign_msg has returned a signature, *)
(* the caller invokes it again, with the same keypath and a payload of its  *)
(* choice, the same as before or another                                     *)

\* payloads around the sizes where the decimal length gains a digit, of digit
\* characters, NUL bytes and text
TwicePayloads ==
    {<<>>, <<48>>, <<49>>, Zeros(10), [i \in 1..10 |-> 48], Text(10),
     Content(10, "bin_last"), Text(100), Text(MaxMsgSize), Content(MaxMsgSize, "bin_last")}

TwiceRequests ==
    {RequestOf(ETHCoin_ETH, <<44, 60, 0, 0, 0>>, MsgOf(b)) : b \in TwicePayloads}

InitTwice == InitWith(TwiceRequests)

\* the caller, after a run that returned a signature: it keeps the request and
\* the outcome of the run, and enters the function again
Again ==
    /\ pc = "Done"
    /\ result = "Ok"
    /\ prev = <<>>
    /\ prev' = <<[request |-> request, result |-> result, sighash |-> sighash,
                 response |-> response, recid |-> recid, calls |-> calls]>>
    /\ request' \in TwiceRequests
    /\ pc' = "Validating"
    /\ result' = "none"
    /\ response' = Zeros(SignatureSize)
    /\ address' = <<>>
    /\ msg' = <<>>
    /\ payload_offset' = 0
    /\ all_ascii' = TRUE
    /\ body' = <<>>
    /\ title' = ""
    /\ sighash' = [keccak256 |-> <<>>]
    /\ recid' = <<>>
    /\ calls' = <<>>
    /\ writes' = {}
    /\ reads' = {}

NextTwice ==
    \/ Next
    \/ Again

SpecTwice == InitTwice /\ [][NextTwice]_vars

----------------------------------------------------------------------------
(* The stages from the building of the buffers on, over every payload size:  *)
(* the runs start where the identity confirmation has just been approved     *)

InitBuild ==
    /\ pc = "BuildingPreimage"
    /\ result = "none"
    /\ request \in BuildRequests
    /\ response = Zeros(SignatureSize)
    /\ address = EthAddress(request.coin, request.keypath, request.keypath_count)
    /\ msg = <<>>
    /\ payload_offset = 0
    /\ all_ascii = TRUE
    /\ body = <<>>
    /\ title = ""
    /\ sighash = [keccak256 |-> <<>>]
    /\ recid = <<>>
    /\ calls = <<Call("app_eth_address", AddressArgs(request), TRUE),
                 Call("workflow_confirm", <<"Your\naddress", address, TRUE>>, TRUE)>>
    /\ writes = {}
    /\ reads = {}
    /\ prev = <<>>

\* the keystore of these runs signs, with recovery id 0
NextBuild ==
    \/ BuildPreimage
    \/ BuildSummary
    \/ ConfirmContent
    \/ Hash
    \/ SignStep({TRUE}, {0})

SpecBuild == InitBuild /\ [][NextBuild]_vars

----------------------------------------------------------------------------
(* Properties *)

NumCalls(fn) == Cardinality({i \in 1..Len(calls) : calls[i].fn = fn})

SignCalled == NumCalls("keystore_secp256k1_sign") > 0

\* the response as the caller passed it in
ResponseUntouched == response = Zeros(65)

\* C1: the keystore sign operation is invoked only after the request passed
\* validation, app_eth_address succeeded, the identity confirmation (body = the
\* derived address) returned true and the content confirmation (body = the
\* summary) returned true, in that order, with the hash in between; a run that
\* ended InvalidInput or UserAbort never reached the signer.
C1_SignOnlyAfterApprovals ==
    /\ \A i \in 1..Len(calls) :
        calls[i].fn = "keystore_secp256k1_sign" =>
            /\ request.msg.size <= 1024
            /\ request.coin = "ETHCoin_ETH"
            /\ i = 5
            /\ calls[1].fn = "app_eth_address" /\ calls[1].ret
            /\ calls[2].fn = "workflow_confirm" /\ calls[2].ret
            /\ calls[2].args = <<"Your\naddress", address, TRUE>>
            /\ calls[3].fn = "workflow_confirm" /\ calls[3].ret
            /\ calls[3].args = <<title, CStr(body), TRUE>>
            /\ calls[4].fn = "rhash_sha3_update"
    /\ result \in {"InvalidInput", "UserAbort"} => ~SignCalled

C1_Witness == SignCalled /\ result = "Ok"

\* C2: a request whose msg.size exceeds 1024 or whose coin is not ETHCoin_ETH
\* returns InvalidInput at once: no collaborator is called, no buffer is
\* written, the payload is not read and the response is not touched.
C2_InvalidRequestRejectedFirst ==
    /\ pc = "Validating" => calls = <<>> /\ writes = {} /\ reads = {}
    /\ (request.msg.size > 1024 \/ request.coin # "ETHCoin_ETH") /\ pc # "Validating" =>
        /\ pc = "Done"
        /\ result = "InvalidInput"
        /\ calls = <<>>
        /\ writes = {}
        /\ reads = {}
        /\ ResponseUntouched

C2_Witness ==
    /\ result = "InvalidInput"
    /\ request.msg.size > 1024
    /\ request.coin = "ETHCoin_ETH"

\* C3: when app_eth_address fails the run ends InvalidInput with that call the
\* only one made: no confirmation, no hash, no keystore sign.
C3_DerivationFailureIsInvalidInput ==
    (Len(calls) >= 1 /\ calls[1].fn = "app_eth_address" /\ ~calls[1].ret) =>
        /\ pc = "Done"
        /\ result = "InvalidInput"
        /\ Len(calls) = 1
        /\ NumCalls("workflow_confirm") = 0

C3_Witness ==
    /\ Len(calls) = 1
    /\ ~calls[1].ret
    /\ result = "InvalidInput"
    /\ request.msg.size <= 1024

\* C4: when the first confirmation, whose body is the derived address, returns
\* false the run ends UserAbort: the content confirmation is not shown (nothing
\* of the preimage or the summary is built) and neither the hash nor the
\* keystore sign is called.
C4_IdentityRejectionIsUserAbort ==
    (Len(calls) >= 2 /\ calls[2].fn = "workflow_confirm" /\ ~calls[2].ret) =>
        /\ pc = "Done"
        /\ result = "UserAbort"
        /\ Len(calls) = 2
        /\ calls[2].args[2] = address
        /\ NumCalls("rhash_sha3_update") = 0
        /\ NumCalls("keystore_secp256k1_sign") = 0
        /\ writes = {}

C4_Witness ==
    /\ Len(calls) = 2
    /\ ~calls[2].ret
    /\ result = "UserAbort"

\* C5: when the second confirmation returns false the run ends UserAbort at
\* once: no digest is computed and the keystore is not invoked.
C5_ContentRejectionIsUserAbort ==
    (Len(calls) >= 3 /\ calls[3].fn = "workflow_confirm" /\ ~calls[3].ret) =>
        /\ pc = "Done"
        /\ result = "UserAbort"
        /\ Len(calls) = 3
        /\ NumCalls("rhash_sha3_update") = 0
        /\ NumCalls("keystore_secp256k1_sign") = 0
        /\ sighash = [keccak256 |-> <<>>]
        /\ ResponseUntouched

C5_Witness ==
    /\ Len(calls) = 3
    /\ ~calls[3].ret
    /\ result = "UserAbort"
    /\ calls[3].args[2] = CStr(body)

\* C6: whenever the result is Ok, validation, derivation, both confirmations
\* and the keystore sign all succeeded, and the 65-byte response signature is
\* the 64-byte (r, s) the keystore returned followed by one byte equal to the
\* recovery id the keystore returned.
C6_OkSignatureIsSigThenRecid ==
    result = "Ok" =>
        /\ request.msg.size <= 1024
        /\ request.coin = "ETHCoin_ETH"
        /\ Len(calls) = 5
        /\ \A i \in 1..5 : calls[i].ret
        /\ calls[5].fn = "keystore_secp256k1_sign"
        /\ Len(response) = 65
        /\ SubSeq(response, 1, 64) =
               KeystoreSig(request.keypath, request.keypath_count, sighash)
        /\ recid # <<>>
        /\ response[65] = recid[1]

\* C7: a failed keystore sign ends the run with Unknown; and Unknown is
\* returned only by a run in which derivation succeeded, both confirmations
\* were approved, the digest of the used part of the preimage was computed and
\* the keystore sign, the fifth and last call, failed.
C7_UnknownIffSignFailed ==
    /\ \A i \in 1..Len(calls) :
        (calls[i].fn = "keystore_secp256k1_sign" /\ ~calls[i].ret) =>
            pc = "Done" /\ result = "Unknown"
    /\ result = "Unknown" =>
        /\ Len(calls) = 5
        /\ calls[1].fn = "app_eth_address" /\ calls[1].ret
        /\ calls[2].fn = "workflow_confirm" /\ calls[2].ret
        /\ calls[3].fn = "workflow_confirm" /\ calls[3].ret
        /\ calls[4].fn = "rhash_sha3_update"
        /\ sighash = [keccak256 |-> SubSeq(msg, 1, payload_offset + request.msg.size)]
        /\ Len(sighash.keccak256) >= 27
        /\ calls[5].fn = "keystore_secp256k1_sign" /\ ~calls[5].ret

C7_Witness ==
    /\ result = "Unknown"
    /\ Len(calls) = 5
    /\ ~calls[5].ret

\* C8: for every recovery id the keystore stores on a successful sign, a
\* recovery id outside 0..255 halts the run with a fatal abort: no outcome is
\* returned, in particular not Ok with a truncated recovery byte.
C8_RecidOutsideByteAborts ==
    (recid # <<>> /\ recid[1] \notin 0..255) => (pc = "Aborted" /\ result = "none")

\* the decimal digits of n, for n up to 9999, as chars
C9_DigitCount(n) == IF n < 10 THEN 1 ELSE IF n < 100 THEN 2 ELSE IF n < 1000 THEN 3 ELSE 4

\* C9: for every payload of length n in 0..1024 the used part of msg is the
\* 26-byte header (0x19, "Ethereum Signed Message:\n"), the decimal digits of
\* n and the n payload bytes; payload_offset = 26 + digits(n), the used length
\* is payload_offset + n, and the buffer past it is as initialised.
C9_PreimageLayout ==
    msg # <<>> =>
        LET n == request.msg.size
            d == C9_DigitCount(n)
        IN  /\ n \in 0..1024
            /\ payload_offset = 26 + d
            /\ SubSeq(msg, 1, 26) =
                   <<25, 69, 116, 104, 101, 114, 101, 117, 109, 32, 83, 105, 103,
                     110, 101, 100, 32, 77, 101, 115, 115, 97, 103, 101, 58, 10>>
            /\ \A j \in 1..d : msg[26 + j] = 48 + ((n \div (10 ^ (d - j))) % 10)
            /\ SubSeq(msg, payload_offset + 1, payload_offset + n) = request.msg.bytes
            /\ payload_offset + n <= Len(msg)
            /\ \A i \in (payload_offset + n + 1)..Len(msg) : msg[i] = 0

C9_Witness ==
    /\ pc = "BuildingSummary"
    /\ request.msg.size = 1000
    /\ payload_offset = 30
    /\ msg[27] = 49
    /\ msg[1030] = request.msg.bytes[1000]

\* C10: for every payload length in 0..1024 and every content, each write
\* into msg (1054 bytes) and into body (68 bytes), the terminators of snprintf
\* and util_uint8_to_hex included, ends within the buffer, and each read of
\* the payload ends within its msg.size bytes.
C10_WritesAndReadsInBounds ==
    /\ msg # <<>> => Len(msg) = 1054
    /\ body # <<>> => Len(body) = 68
    /\ \A w \in writes :
        /\ w.off >= 0
        /\ w.len >= 0
        /\ w.buf = "msg" => w.off + w.len <= 1054
        /\ w.buf = "body" => w.off + w.len <= 68
    /\ \A r \in reads :
        /\ r.off >= 0
        /\ r.off + r.len <= request.msg.size

C10_Witness ==
    /\ pc = "ConfirmingContent"
    /\ request.msg.size = 1024
    /\ [buf |-> "msg", off |-> 30, len |-> 1024] \in writes
    /\ [buf |-> "body", off |-> 0, len |-> 68] \in writes
    /\ [off |-> 992, len |-> 32] \in reads

\* the two lowercase hex digits of the byte b
C11_HexPair(b) ==
    LET digit(d) == IF d < 10 THEN 48 + d ELSE 87 + d
    IN  <<digit(b \div 16), digit(b % 16)>>

\* the lowercase hex text of the bytes bs
C11_Hex(bs) == [i \in 1..(2 * Len(bs)) |-> C11_HexPair(bs[(i + 1) \div 2])[2 - (i % 2)]]

\* the summary of the payload bs: verbatim or its two ends when every byte is
\* in 20..127, hex or the hex of its two ends otherwise
C11_Summary(bs) ==
    LET n == Len(bs)
        printable == \A i \in 1..n : bs[i] >= 20 /\ bs[i] <= 127
    IN  IF printable /\ n <= 67 THEN bs
        ELSE IF printable THEN SubSeq(bs, 1, 32) \o <<46, 46, 46>> \o SubSeq(bs, n - 31, n)
        ELSE IF n <= 33 THEN C11_Hex(bs)
        ELSE C11_Hex(SubSeq(bs, 1, 16)) \o <<46, 46, 46>> \o C11_Hex(SubSeq(bs, n - 15, n))

\* C11: once the summary is built, the body is the payload verbatim (printable,
\* at most 67 bytes), its first 32 bytes, "..." and its last 32 bytes
\* (printable, longer), its lowercase hex (binary, at most 33 bytes), or the
\* hex of its first 16 bytes, "..." and the hex of its last 16 bytes (binary,
\* longer); it never exceeds 67 characters, and it is the body the content
\* confirmation is shown
C11_SummaryBody ==
    /\ body # <<>> =>
        /\ CStr(body) = C11_Summary(request.msg.bytes)
        /\ Len(CStr(body)) <= 67
        /\ (request.msg.size > 67 \/ (~all_ascii /\ request.msg.size > 33))
              => Len(CStr(body)) = 67
    /\ Len(calls) >= 3 => calls[3].args[2] = C11_Summary(request.msg.bytes)

\* a binary payload of 34 bytes was summarised as the hex of its two ends, and
\* a summary was shown
C11_Witness ==
    /\ Len(calls) >= 3
    /\ request.msg.size = 34
    /\ ~all_ascii
    /\ Len(calls[3].args[2]) = 67
    /\ SubSeq(calls[3].args[2], 31, 37) = <<55, 48, 46, 46, 46, 55, 51>>

\* every byte of bs lies in [20, 127]
C12_Printable(bs) == \A i \in 1..Len(bs) : bs[i] \in 20..127

\* C12: once the summary is built, the payload is classified printable exactly
\* when every byte lies in [20, 127]; the title built and the title shown are
\* the plain one exactly when it is printable and the "(hex)" one otherwise;
\* and the body is of the branch of the same classification (as long as the
\* payload, up to 67 characters, when printable; twice as long when binary)
C12_ClassificationAndTitle ==
    LET bs == request.msg.bytes
        plain == "Sign\nETH Message"
        hex == "Sign\nETH Message (hex)"
    IN  /\ body # <<>> =>
            /\ all_ascii = C12_Printable(bs)
            /\ title = (IF C12_Printable(bs) THEN plain ELSE hex)
            /\ Len(CStr(body)) = Min(67, IF C12_Printable(bs) THEN Len(bs) ELSE 2 * Len(bs))
        /\ Len(calls) >= 3 =>
            calls[3].args[1] = (IF C12_Printable(bs) THEN plain ELSE hex)

\* a payload of the largest accepted byte value and one byte below the range
\* was classified binary and shown under the "(hex)" title
C12_Witness ==
    /\ request.msg.bytes = <<127, 19>>
    /\ ~all_ascii
    /\ Len(calls) >= 3
    /\ calls[3].args[1] = "Sign\nETH Message (hex)"
    /\ calls[3].args[2] = <<55, 102, 49, 51>>

\* the decimal digits of n, for n up to 9999
C13_Digits(n) ==
    LET d(k) == 48 + ((n \div k) % 10)
    IN  IF n < 10 THEN <<d(1)>>
        ELSE IF n < 100 THEN <<d(10), d(1)>>
        ELSE IF n < 1000 THEN <<d(100), d(10), d(1)>>
        ELSE <<d(1000), d(100), d(10), d(1)>>

\* the bytes to hash for the payload bs: "\x19Ethereum Signed Message:\n", the
\* decimal length and the payload
C13_Preimage(bs) ==
    <<25, 69, 116, 104, 101, 114, 101, 117, 109, 32, 83, 105, 103, 110, 101, 100, 32,
      77, 101, 115, 115, 97, 103, 101, 58, 10>> \o C13_Digits(Len(bs)) \o bs

\* C13: the hash is computed over exactly the first payload_offset +
\* msg.size bytes of the preimage buffer, which are the header, the decimal
\* length and the payload and never the unused tail of the buffer, and the
\* digest given to the keystore is that hash
C13_DigestOfExactPreimage ==
    \A i \in 1..Len(calls) :
        /\ calls[i].fn = "rhash_sha3_update" =>
            /\ calls[i].args[1] = payload_offset + request.msg.size
            /\ sighash.keccak256 = SubSeq(msg, 1, payload_offset + request.msg.size)
            /\ sighash.keccak256 = C13_Preimage(request.msg.bytes)
        /\ calls[i].fn = "keystore_secp256k1_sign" =>
            calls[i].args[3] = [keccak256 |-> C13_Preimage(request.msg.bytes)]

\* the keystore was given the digest of the 1030 bytes of the preimage of a
\* payload of 1000 bytes, 24 bytes short of the buffer
C13_Witness ==
    /\ Len(calls) = 5
    /\ calls[5].fn = "keystore_secp256k1_sign"
    /\ request.msg.size = 1000
    /\ Len(calls[5].args[3].keccak256) = 1030
    /\ Len(msg) = 1054

\* this run and the caller's earlier one both returned a signature, for the
\* same keypath and payload
C14_SameRequestSignedTwice ==
    /\ prev # <<>>
    /\ result = "Ok"
    /\ prev[1].result = "Ok"
    /\ request.keypath = prev[1].request.keypath
    /\ request.keypath_count = prev[1].request.keypath_count
    /\ request.msg = prev[1].request.msg

\* the two runs hashed the same preimage, gave the keystore the same digest
\* and returned the same (r, s)
C14_SameDigestAndSignature ==
    /\ sighash = prev[1].sighash
    /\ calls[Len(calls)].args[3] = prev[1].calls[Len(prev[1].calls)].args[3]
    /\ calls[Len(calls)].args[3] = sighash
    /\ SubSeq(response, 1, 64) = SubSeq(prev[1].response, 1, 64)

C15_Confirms == {i \in 1..Len(calls) : calls[i].fn = "workflow_confirm"}

\* C15: workflow_confirm is called at most twice; its first call is the
\* identity confirmation, of the address just derived; the preimage and the
\* summary are built, and the content confirmation is called, only after the
\* identity confirmation returned true; it was called 0 times when the result
\* is InvalidInput, once or twice when UserAbort, twice when Unknown or Ok
C15_ConfirmationsInOrder ==
    /\ Cardinality(C15_Confirms) <= 2
    /\ C15_Confirms \subseteq {2, 3}
    /\ 3 \in C15_Confirms => 2 \in C15_Confirms
    /\ 2 \in C15_Confirms =>
        /\ calls[1].fn = "app_eth_address" /\ calls[1].ret
        /\ address # <<>>
        /\ calls[2].args = <<"Your\naddress", address, TRUE>>
    /\ (msg # <<>> \/ body # <<>> \/ 3 \in C15_Confirms) =>
        2 \in C15_Confirms /\ calls[2].ret
    /\ 3 \in C15_Confirms => calls[3].args[2] = CStr(body) /\ calls[3].args[1] = title
    /\ result = "InvalidInput" => Cardinality(C15_Confirms) = 0
    /\ result = "UserAbort" =>
        /\ Cardinality(C15_Confirms) \in {1, 2}
        /\ ~calls[Len(calls)].ret
    /\ result \in {"Unknown", "Ok"} => Cardinality(C15_Confirms) = 2

\* a run that the keystore ended with Unknown made the two confirmations, the
\* identity one first
C15_Witness ==
    /\ result = "Unknown"
    /\ C15_Confirms = {2, 3}
    /\ calls[2].args[2] = address
    /\ calls[3].args[1] = "Sign\nETH Message"
    /\ calls[2].ret /\ calls[3].ret

\* the position of a stage in the order of the pipeline; the summary is built
\* in the second half of the building stage; a fatal abort ends a run as a
\* return does
C16_Rank(stage) ==
    CASE stage = "Validating" -> 1
      [] stage = "DerivingAddress" -> 2
      [] stage = "ConfirmingIdentity" -> 3
      [] stage = "BuildingPreimage" -> 4
      [] stage = "BuildingSummary" -> 5
      [] stage = "ConfirmingContent" -> 6
      [] stage = "Hashing" -> 7
      [] stage = "Signing" -> 8
      [] stage \in {"Done", "Aborted"} -> 9

\* C16: every step of a run moves to a later stage of the order Validating,
\* DerivingAddress, ConfirmingIdentity, BuildingPreimage, ConfirmingContent,
\* Hashing, Signing, Done, so that no stage is entered twice and none is
\* returned to, and after it the derivation, the hash and the keystore sign
\* have each been called at most once
C16_StagesOnlyForward ==
    [][/\ C16_Rank(pc') > C16_Rank(pc)
       /\ C16_Rank(pc') > C16_Rank(pc) + 1 => pc' \in {"Done", "Aborted"}
       /\ \A fn \in {"app_eth_address", "rhash_sha3_update", "keystore_secp256k1_sign"} :
            Cardinality({i \in 1..Len(calls') : calls'[i].fn = fn}) <= 1]_vars

\* a run went through every stage: the three collaborators were called, in
\* order, and the run is over
C16_Witness ==
    /\ pc = "Done"
    /\ Len(calls) = 5
    /\ calls[1].fn = "app_eth_address"
    /\ calls[4].fn = "rhash_sha3_update"
    /\ calls[5].fn = "keystore_secp256k1_sign"
    /\ NumCalls("workflow_confirm") = 2

\* the run has returned one of the four outcomes
C17_Returned == pc = "Done" /\ result \in {"InvalidInput", "UserAbort", "Unknown", "Ok"}

\* C17 as stated: every run, its collaborators returning, ends in one
\* terminal state for good, which is one of InvalidInput, UserAbort, Unknown
\* and Done with a signature
C17_EndsInOneOfFourOutcomes == <>[]C17_Returned

\* C17, amended: every run, its collaborators returning, ends in one terminal
\* state for good, which is one of InvalidInput, UserAbort, Unknown and Done
\* with a signature, or, when and only when the keystore stored a recovery id
\* above 255, the fatal abort, in which nothing is returned
C17_EndsInOutcomeOrFatalAbort ==
    <>[](\/ C17_Returned /\ (result = "Ok" => recid # <<>> /\ recid[1] <= 255)
         \/ pc = "Aborted" /\ result = "none" /\ recid # <<>> /\ recid[1] > 255)

\* a run ended in the fatal abort, after the keystore signed and stored the
\* recovery id 256
C17_Witness ==
    /\ pc = "Aborted"
    /\ recid = <<256>>
    /\ Len(calls) = 5
    /\ calls[5].ret
    /\ result = "none"

\* C18: in a run that returned InvalidInput or UserAbort the response is as
\* the caller passed it in and the keystore sign was not called; the response
\* is as passed in as long as the keystore sign has not been called, and the
\* keystore sign is called only after both confirmations returned true
C18_ResponseUnchangedOnEarlyReturn ==
    /\ result \in {"InvalidInput", "UserAbort"} =>
        /\ response = [i \in 1..65 |-> 0]
        /\ ~SignCalled
    /\ ~SignCalled => response = [i \in 1..65 |-> 0]
    /\ SignCalled =>
        /\ calls[2].fn = "workflow_confirm" /\ calls[2].ret
        /\ calls[3].fn = "workflow_confirm" /\ calls[3].ret
        /\ calls[Len(calls)].fn = "keystore_secp256k1_sign"

\* the content confirmation was rejected after the summary of a request was
\* built, and the response is still as passed in
C18_Witness ==
    /\ result = "UserAbort"
    /\ NumCalls("workflow_confirm") = 2
    /\ msg # <<>>
    /\ response = [i \in 1..65 |-> 0]

\* this run and the caller's earlier one both hashed a preimage
C19_BothHashed ==
    /\ prev # <<>>
    /\ NumCalls("rhash_sha3_update") = 1
    /\ prev[1].sighash.keccak256 # <<>>

\* C19: the bytes hashed for two distinct payloads, of equal or different
\* lengths, differ; they are the header, the decimal length and the payload
C19_PreimageInjective ==
    C19_BothHashed =>
        /\ sighash.keccak256 = C13_Preimage(request.msg.bytes)
        /\ prev[1].sighash.keccak256 = C13_Preimage(prev[1].request.msg.bytes)
        /\ request.msg.bytes # prev[1].request.msg.bytes
              => sighash.keccak256 # prev[1].sighash.keccak256

\* the payload "0", of length 1, and then a payload of ten NUL bytes were
\* hashed: their preimages both go on with "10" after the header, and differ
C19_Witness ==
    /\ C19_BothHashed
    /\ prev[1].request.msg.bytes = <<48>>
    /\ request.msg.bytes = [i \in 1..10 |-> 0]
    /\ SubSeq(sighash.keccak256, 27, 28) = SubSeq(prev[1].sighash.keccak256, 27, 28)
    /\ sighash.keccak256 # prev[1].sighash.keccak256

\* what the calls logged so far were given is what the request holds: address
\* derivation and keystore sign the same keypath and count, the content
\* confirmation the title and summary of the payload, and the keystore the
\* digest of the preimage of that payload
C20_CallsMatchRequest ==
    \A i \in 1..Len(calls) :
        /\ calls[i].fn = "app_eth_address" =>
            calls[i].args[2] = request.keypath /\ calls[i].args[3] = request.keypath_count
        /\ (calls[i].fn = "workflow_confirm" /\ i = 3) =>
            /\ calls[i].args[1] =
                 (IF C12_Printable(request.msg.bytes)
                  THEN "Sign\nETH Message" ELSE "Sign\nETH Message (hex)")
            /\ calls[i].args[2] = C11_Summary(request.msg.bytes)
        /\ calls[i].fn = "keystore_secp256k1_sign" =>
            /\ calls[i].args[1] = calls[1].args[2]
            /\ calls[i].args[2] = calls[1].args[3]
            /\ calls[i].args[3] = [keccak256 |-> C13_Preimage(request.msg.bytes)]

\* C20: no step of a run modifies the request, and after every step the
\* keypath and count given to the keystore sign are those given to the address
\* derivation, and the digest given to it is that of the payload whose
\* classification and summary the content confirmation showed
C20_SignedIsWhatWasApproved == [][request' = request /\ C20_CallsMatchRequest']_vars

\* a binary payload was signed: the keystore got the keypath of the address
\* derivation and a digest, after the "(hex)" prompt
C20_Witness ==
    /\ result = "Ok"
    /\ Len(calls) = 5
    /\ calls[1].args[2] = <<44, 60, 0, 0, 0>>
    /\ calls[5].args[1] = <<44, 60, 0, 0, 0>>
    /\ calls[5].args[2] = 5
    /\ calls[3].args[1] = "Sign\nETH Message (hex)"
    /\ calls[5].args[3] = sighash

====
